---- MODULE Spec2Model ----
(***************************************************************************)
(* Stage progression of stackclass/backend: the user_courses / user_stages *)
(* rows of one enrollment, and the handlers that read and write them       *)
(* (push activation, stage completion, user-course update).  A handler's  *)
(* reads through db.pool() are steps of their own and see the committed    *)
(* rows.  The statements a handler issues between begin() and commit() are *)
(* one step, taken at the commit: until then its writes are invisible to   *)
(* every other task and it holds the rows it wrote (an UPDATE or a         *)
(* conflicting INSERT of another transaction waits for it), so each        *)
(* interleaving of those statements with other tasks has the outcome of    *)
(* running them together at the commit.  A transaction dropped before the  *)
(* commit leaves the tables as they were.  The last section models the     *)
(* signature check of the Tekton notification handler.                     *)
(***************************************************************************)
EXTENDS Integers, Sequences, FiniteSets, TLC

(* ------------------------------------------------------------------ *)
(* Bounds                                                              *)
(* ------------------------------------------------------------------ *)

\* Number of request / background tasks that may run at the same time.
NumTasks == 2

Tasks == 1..NumTasks

(* ------------------------------------------------------------------ *)
(* State                                                               *)
(* ------------------------------------------------------------------ *)

VARIABLES
    course_schema,  \* the course definition create_course was given
    user_courses,   \* the committed user_courses row of the enrollment
    user_stages,    \* the committed user_stages rows of the enrollment
    pc,             \* per task: the step it is about to run
    op,             \* per task: the operation of its current / last call
    stage_slug,     \* per task: the stage_slug argument of complete
    user_course,    \* per task: the row it read (local user_course)
    user_stage,     \* per task: the row it read (local user_stage)
    result,         \* per task: what its last call returned
    via,            \* per task: who called complete (http, tekton, watch)
    job,            \* per task: the params of the PipelineRun its push created
    watch,          \* per task: the watch task its push spawned
    call_start,     \* history: the committed rows when the running call began
    last_call,      \* history: the call that returned last
    prev_call,      \* history: the call that returned before last_call
    event,          \* the Tekton notification under verification
    verdict,        \* what handle_tekton_webhook's verification did with it
    accepted_event, \* history: the accepted notification event was derived from
    auth_secret     \* config.auth_secret

storeVars == <<user_courses, user_stages>>
taskVars == <<pc, op, stage_slug, user_course, user_stage, result, via, job, watch>>
histVars == <<call_start, last_call, prev_call>>
sigVars == <<event, verdict, accepted_event, auth_secret>>
vars == <<course_schema, storeVars, taskVars, histVars, sigVars>>

(* ------------------------------------------------------------------ *)
(* The course: stages and the weights create_course gives them         *)
(* ------------------------------------------------------------------ *)

\* A course of one base stage and one extension of one stage.
SmallCourse == [stages |-> <<"s0">>, extensions |-> << <<"e0">> >>]

\* Three base stages and an extension of two: weights 0, 1, 2, 1000, 1001.
ExampleCourse ==
    [stages |-> <<"s0", "s1", "s2">>, extensions |-> << <<"e0", "e1">> >>]

\* Two base stages and two extensions.
TwoExtensionCourse ==
    [stages |-> <<"s0", "s1">>, extensions |-> << <<"e0">>, <<"f0", "f1">> >>]

\* The factor of an extension's weight bucket.
ExtensionWeightBase == 1000

\* Weight of base stage number i (1-based here; enumerate() is 0-based).
BaseWeight(i) == i - 1

\* Weight of stage j of extension k (both 1-based here).
ExtensionStageWeight(k, j) == ((k - 1) + 1) * ExtensionWeightBase + (j - 1)

\* The rows of table stages that create_course persists for the course.
Stages ==
    {[slug |-> course_schema.stages[i], weight |-> BaseWeight(i), extension |-> 0] :
        i \in DOMAIN course_schema.stages}
    \cup
    UNION {{[slug |-> course_schema.extensions[k][j],
             weight |-> ExtensionStageWeight(k, j),
             extension |-> k] : j \in DOMAIN course_schema.extensions[k]} :
           k \in DOMAIN course_schema.extensions}

Slugs == {s.slug : s \in Stages}

NULL == "NULL"

Weight(slug) == (CHOOSE s \in Stages : s.slug = slug).weight

\* ORDER BY s.weight DESC LIMIT 1 instead of ASC.
FindNextStageBySlugDesc(slug) ==
    LET later == {s \in Stages : slug \in Slugs /\ s.weight > Weight(slug)}
    IN  IF later = {} THEN NULL
        ELSE (CHOOSE s \in later : \A o \in later : s.weight >= o.weight).slug

\* WHERE s.weight > (weight of slug) ORDER BY s.weight ASC LIMIT 1.
FindNextStageBySlug(slug) ==
    LET later == {s \in Stages : slug \in Slugs /\ s.weight > Weight(slug)}
    IN  IF later = {} THEN NULL
        ELSE (CHOOSE s \in later : \A o \in later : s.weight <= o.weight).slug

\* The lowest-weight stage of the course (StageRepository::first).
FirstStage ==
    IF Stages = {} THEN NULL
    ELSE (CHOOSE s \in Stages : \A o \in Stages : s.weight <= o.weight).slug

(* ------------------------------------------------------------------ *)
(* Rows                                                                *)
(* ------------------------------------------------------------------ *)

\* UserCourseModel::default / new: the enrollment row as first inserted.
NewUserCourse ==
    [current_stage_id |-> NULL, completed_stage_count |-> 0,
     proficiency |-> "beginner", cadence |-> "weekly",
     accountability |-> FALSE, activated |-> FALSE]

\* UserStageModel::new(user_course_id, stage_id); id stands for the fresh
\* uuid: the stage and a number no row of that stage has yet.
NewUserStage(rows, stage) ==
    [id |-> <<stage, Cardinality({r \in rows : r.stage_id = stage}) + 1>>,
     stage_id |-> stage, status |-> "in_progress",
     test |-> "failed", completed_at |-> NULL]

\* A task's local user_stage before it has read one.
NoUserStage ==
    [id |-> <<"", 0>>, stage_id |-> "", status |-> "", test |-> "",
     completed_at |-> NULL]

\* UserStageModel::passed
Passed(m) == [m EXCEPT !.test = "passed"]

\* complete() that stamps completed_at and forgets the status.
CompleteKeepsStatus(m) == [m EXCEPT !.completed_at = "ts"]

\* UserStageModel::complete; "ts" stands for Some(Utc::now()).
Complete(m) == [m EXCEPT !.status = "completed", !.completed_at = "ts"]

\* An UPDATE user_stages whose SET list leaves status out.
UpdateUserStageRowNoStatus(stored, m) ==
    [stored EXCEPT !.completed_at = m.completed_at]

\* UPDATE user_stages SET status = $2, completed_at = $4 WHERE id = $1:
\* the stored row after the statement (column test is not in the SET list).
\* The statement is modelled by its SET list and WHERE clause; its text has
\* a comma before WHERE and names $4 with three values bound.
UpdateUserStageRow(stored, m) ==
    [stored EXCEPT !.status = m.status, !.completed_at = m.completed_at]

\* The body of PATCH user-course requests the model sends.
UpdateRequests ==
    {[proficiency |-> "advanced", cadence |-> "daily", accountability |-> TRUE]}

NoCall == [op |-> "none", stage |-> "", result |-> "none",
           before |-> <<NewUserCourse, {}>>, after |-> <<NewUserCourse, {}>>]

\* No PipelineRun was created.
NoJob == [REPO |-> <<>>, COURSE |-> <<>>, STAGE |-> <<>>, SECRET |-> <<>>,
          TEST_CASES_JSON |-> <<>>, created |-> FALSE]

\* No watch task: no poll made, no callback invoked.
NoWatch == [polls |-> 0, callbacks |-> 0]

NoEvent == [repo |-> <<>>, course |-> <<>>, stage |-> <<>>, secret |-> <<>>]

\* The enrollment as create_user_course leaves it; no task running.
StoreInit ==
    /\ user_courses = NewUserCourse
    /\ user_stages = {}
    /\ pc = [t \in Tasks |-> "idle"]
    /\ op = [t \in Tasks |-> "none"]
    /\ stage_slug = [t \in Tasks |-> ""]
    /\ user_course = [t \in Tasks |-> NewUserCourse]
    /\ user_stage = [t \in Tasks |-> NoUserStage]
    /\ result = [t \in Tasks |-> "none"]
    /\ via = [t \in Tasks |-> "none"]
    /\ job = [t \in Tasks |-> NoJob]
    /\ watch = [t \in Tasks |-> NoWatch]
    /\ call_start = <<NewUserCourse, {}>>
    /\ last_call = NoCall
    /\ prev_call = NoCall

NoSignature ==
    /\ event = NoEvent
    /\ verdict = "none"
    /\ accepted_event = NoEvent
    /\ auth_secret = <<"a">>

Init ==
    /\ course_schema = SmallCourse
    /\ StoreInit
    /\ NoSignature

(* ------------------------------------------------------------------ *)
(* Strings, and the signature of a job                                 *)
(* ------------------------------------------------------------------ *)

\* Longest repo, course and stage field of a notification.
MaxLen == 1

\* The characters of the fields and of auth_secret.
Alphabet == <<"a", "b">>

RECURSIVE StringsUpTo(_)
StringsUpTo(n) ==
    IF n = 0 THEN {<<>>}
    ELSE StringsUpTo(n - 1)
         \cup {Append(w, Alphabet[i]) : w \in StringsUpTo(n - 1),
                                        i \in DOMAIN Alphabet}

Fields == StringsUpTo(MaxLen)

AuthSecrets == {<<"a">>, <<"b">>}

\* format!("{}{}{}", repo, stage, course): the fields in another order.
PayloadStageFirst(e) == e.repo \o e.stage \o e.course

\* format!("{}{}{}", event.repo, event.course, event.stage)
Payload(e) == e.repo \o e.course \o e.stage

\* The number of a string among the strings over Alphabet (a bijection).
RECURSIVE StringNumber(_)
StringNumber(w) ==
    IF w = <<>> THEN 0
    ELSE StringNumber(SubSeq(w, 1, Len(w) - 1)) * Len(Alphabet)
         + (CHOOSE i \in DOMAIN Alphabet : Alphabet[i] = w[Len(w)])

\* HMAC-SHA256 as a collision-free function: the bytes of a number that
\* differs for every two (key, message) pairs (the digest is cut to two
\* bytes, which every pair within the bounds fits).
HmacSha256(key, message) ==
    LET span == Len(Alphabet) ^ (3 * MaxLen + 2)
        n == StringNumber(key) * span + StringNumber(message)
    IN  <<(n \div 256) % 256, n % 256>>

HexDigits ==
    <<"0", "1", "2", "3", "4", "5", "6", "7",
      "8", "9", "a", "b", "c", "d", "e", "f">>

\* hex::encode: two lower-case digits per byte, high nibble first.
HexEncode(bytes) ==
    [i \in 1..(2 * Len(bytes)) |->
        LET b == bytes[(i + 1) \div 2]
        IN  HexDigits[(IF i % 2 = 1 THEN b \div 16 ELSE b % 16) + 1]]

\* hmac_sha256_sign(payload, secret)
HmacSha256Sign(payload, secret) == HexEncode(HmacSha256(secret, payload))

\* hmac_sha256_verify(payload, secret, sign): ct_eq of the bytes of sign
\* and of the expected signature.
HmacSha256Verify(payload, secret, sign) ==
    sign = HmacSha256Sign(payload, secret)

\* The same string in upper-case hex digits.
UpperHex(w) ==
    [i \in DOMAIN w |->
        CASE w[i] = "a" -> "A" [] w[i] = "b" -> "B" [] w[i] = "c" -> "C"
          [] w[i] = "d" -> "D" [] w[i] = "e" -> "E" [] w[i] = "f" -> "F"
          [] OTHER -> w[i]]

\* The secret fields a notification may carry: the signature of any
\* payload under any key, the same in upper case or cut short, or nothing.
Secrets ==
    LET signed == {HmacSha256Sign(r \o c \o g, k) :
                      r \in Fields, c \in Fields, g \in Fields,
                      k \in AuthSecrets}
    IN  signed \cup {UpperHex(w) : w \in signed}
               \cup {SubSeq(w, 1, Len(w) - 1) : w \in signed}
               \cup {<<>>}

Events == [repo : Fields, course : Fields, stage : Fields, secret : Secrets]

\* The handler with the signature check left out.
TektonVerdictNoCheck(e) == "accepted"

\* handle_tekton_webhook up to the signature check: Unauthorized when the
\* signature is invalid, otherwise the handler goes on.
TektonVerdict(e) ==
    IF HmacSha256Verify(Payload(e), auth_secret, e.secret)
    THEN "accepted" ELSE "Unauthorized"

\* The string with number n: the inverse of StringNumber.
RECURSIVE NumberString(_)
NumberString(n) ==
    IF n = 0 THEN <<>>
    ELSE LET d == ((n - 1) % Len(Alphabet)) + 1
         IN  Append(NumberString((n - d) \div Len(Alphabet)), Alphabet[d])

\* event.repository.name of the learner's repository: the id of the
\* enrollment, as text.
EnrollmentRepo == <<"a">>

\* course.course_slug of the enrollment, as text.
CourseSlug == <<"b">>

\* The slug of a stage as text: stages are named in the order of weight.
StageText(slug) ==
    NumberString(Cardinality({s \in Stages : s.weight <= Weight(slug)}))

\* The stage a text names, or "unknown" when the course has no such stage.
StageOfText(w) ==
    IF \E slug \in Slugs : StageText(slug) = w
    THEN CHOOSE slug \in Slugs : StageText(slug) = w
    ELSE "unknown"

\* Uuid::parse_str(repo): a repository name that is no uuid is refused.
ParsesAsUuid(w) == w # <<>>

\* The stages of the course up to and including stage, by ascending
\* weight (StageRepository::find_stages_until), as their slugs.
RECURSIVE SlugsByWeight(_)
SlugsByWeight(stages) ==
    IF stages = {} THEN <<>>
    ELSE LET lowest == CHOOSE s \in stages : \A o \in stages : s.weight <= o.weight
         IN  <<lowest.slug>> \o SlugsByWeight(stages \ {lowest})

FindStagesUntil(stage) ==
    SlugsByWeight({s \in Stages : stage \in Slugs /\ s.weight <= Weight(stage)})

\* The decimal digits, and format!("{}", n) of a number.
Digits == <<"0", "1", "2", "3", "4", "5", "6", "7", "8", "9">>

RECURSIVE Decimal(_)
Decimal(n) ==
    IF n < 10 THEN Digits[n + 1]
    ELSE Decimal(n \div 10) \o Digits[(n % 10) + 1]

\* build_test_cases_json that numbers the entries as enumerate() does,
\* from 0.
BuildTestCasesJsonFromZero(slugs) ==
    [i \in DOMAIN slugs |->
        [slug |-> slugs[i],
         log_prefix |-> "test-" \o Decimal(i - 1),
         title |-> "Stage #" \o Decimal(i - 1) \o ": " \o slugs[i]]]

\* build_test_cases_json: one object per slug, numbered index + 1 (the
\* positions of a TLA+ sequence are 1-based already); the value is the
\* array that serde_json::to_string writes out.
BuildTestCasesJson(slugs) ==
    [i \in DOMAIN slugs |->
        [slug |-> slugs[i],
         log_prefix |-> "test-" \o Decimal(i),
         title |-> "Stage #" \o Decimal(i) \o ": " \o slugs[i]]]

\* PipelineService::generate: the params REPO, COURSE, STAGE, SECRET and
\* TEST_CASES_JSON of the PipelineRun (let secret = String::new()).
Generate(repo, course, stage) ==
    [REPO |-> repo, COURSE |-> course, STAGE |-> stage, SECRET |-> <<>>,
     TEST_CASES_JSON |-> BuildTestCasesJson(FindStagesUntil(StageOfText(stage))),
     created |-> TRUE]

(* ------------------------------------------------------------------ *)
(* The PipelineRun as api.get returns it                               *)
(* ------------------------------------------------------------------ *)

\* What a poll may get: the platform cannot be reached, a resource without
\* /status/conditions, conditions that do not deserialize, or a resource
\* with one condition.
PipelineRuns ==
    {[reached |-> FALSE, conditions |-> {}, malformed |-> FALSE],
     [reached |-> TRUE, conditions |-> {}, malformed |-> FALSE],
     [reached |-> TRUE, conditions |-> {}, malformed |-> TRUE]}
    \cup
    {[reached |-> TRUE, conditions |-> {[type |-> ty, status |-> st]},
      malformed |-> FALSE] :
        ty \in {"Succeeded", "Ready"}, st \in {"True", "False", "Unknown"}}

\* The run failed: its Succeeded condition is False.
FailedRun ==
    [reached |-> TRUE, malformed |-> FALSE,
     conditions |-> {[type |-> "Succeeded", status |-> "False"]}]

\* The platform could not be reached.
UnreachableRun == [reached |-> FALSE, conditions |-> {}, malformed |-> FALSE]

\* status() that takes any condition with status True for success.
StatusAnyConditionTrue(resource) ==
    IF ~resource.reached \/ resource.malformed THEN "Err"
    ELSE IF \E c \in resource.conditions : c.status = "True"
         THEN "Ok(true)" ELSE "Ok(false)"

\* PipelineService::status: Err when api.get or the deserialization fails,
\* Ok(true) when some condition has type Succeeded and status True,
\* Ok(false) otherwise.
Status(resource) ==
    IF ~resource.reached \/ resource.malformed THEN "Err"
    ELSE IF \E c \in resource.conditions :
               c.type = "Succeeded" /\ c.status = "True"
         THEN "Ok(true)" ELSE "Ok(false)"

\* Most polls of one watch task that find the run unfinished.
MaxPolls == 2

\* The watch task after one more poll.
Polled(w) == [w EXCEPT !.polls = @ + 1]

(* ------------------------------------------------------------------ *)
(* The store                                                           *)
(* ------------------------------------------------------------------ *)

\* The uniqueness constraint on user_stages (user_course_id, stage_id).
UniqueViolation(rows, stage) == \E r \in rows : r.stage_id = stage

\* INSERT INTO user_stages ... : the table after the statement.
CreateUserStage(rows, m) == rows \cup {m}

\* UPDATE user_stages ... WHERE id = m.id : the table after the statement.
UpdateUserStage(rows, m) ==
    {IF r.id = m.id THEN UpdateUserStageRow(r, m) ELSE r : r \in rows}

\* UPDATE user_courses SET current_stage_id, completed_stage_count,
\* proficiency, cadence, accountability, activated WHERE id = $1.
UpdateUserCourse(stored, m) ==
    [stored EXCEPT !.current_stage_id = m.current_stage_id,
                   !.completed_stage_count = m.completed_stage_count,
                   !.proficiency = m.proficiency,
                   !.cadence = m.cadence,
                   !.accountability = m.accountability,
                   !.activated = m.activated]

\* The call returns r; its locals go, and so do its job and watch task.
Return(t, r) ==
    /\ pc' = [pc EXCEPT ![t] = "idle"]
    /\ result' = [result EXCEPT ![t] = r]
    /\ via' = [via EXCEPT ![t] = "none"]
    /\ job' = [job EXCEPT ![t] = NoJob]
    /\ watch' = [watch EXCEPT ![t] = NoWatch]
    /\ user_course' = [user_course EXCEPT ![t] = NewUserCourse]
    /\ user_stage' = [user_stage EXCEPT ![t] = NoUserStage]

Goto(t, label) == pc' = [pc EXCEPT ![t] = label]

(* ------------------------------------------------------------------ *)
(* RepoService::process and CourseService::activate                    *)
(* ------------------------------------------------------------------ *)

\* process() begins on a push to refs/heads/main of the learner's
\* repository: get_user_course_by_id.
BeginProcess(t) ==
    /\ pc[t] = "idle"
    /\ op' = [op EXCEPT ![t] = "push"]
    /\ result' = [result EXCEPT ![t] = "none"]
    /\ via' = [via EXCEPT ![t] = "none"]
    /\ UNCHANGED <<storeVars, user_stage>>

\* watch() that awaits its loop: it returns after a poll at the earliest.
WatchAwaited(w) == Polled(w)

\* watch(): the loop is handed to tokio::spawn and Ok(()) is returned at
\* once, so process() returns with no poll of the new task made.
WatchSpawned(w) == w

\* process() that goes on to watch() whatever trigger() returned.
AfterTriggerIgnoresError(outcome) == "watch"

\* Where process() is after pipeline.trigger(...).await?: at watch() when
\* the PipelineRun was created, returned to the caller when it was not.
AfterTrigger(outcome) == IF outcome = "created" THEN "watch" ELSE "idle"

\* process(): no current stage, so the enrollment is to be activated.
ProcessActivate(t) ==
    /\ BeginProcess(t)
    /\ user_courses.current_stage_id = NULL
    /\ user_course' = [user_course EXCEPT ![t] = user_courses]
    /\ stage_slug' = [stage_slug EXCEPT ![t] = ""]
    /\ job' = [job EXCEPT ![t] = NoJob]
    /\ watch' = [watch EXCEPT ![t] = NoWatch]
    /\ Goto(t, "activate")

\* process(): a current stage; pipeline.trigger() creates the PipelineRun
\* and pipeline.watch() spawns the watch task with the callback.
ProcessTrigger(t) ==
    /\ BeginProcess(t)
    /\ user_courses.current_stage_id # NULL
    /\ user_course' = [user_course EXCEPT ![t] = user_courses]
    /\ stage_slug' = [stage_slug EXCEPT ![t] = user_courses.current_stage_id]
    /\ job' = [job EXCEPT ![t] =
          Generate(EnrollmentRepo, CourseSlug,
                   StageText(user_courses.current_stage_id))]
    /\ watch' = [watch EXCEPT ![t] = WatchSpawned(NoWatch)]
    /\ Goto(t, AfterTrigger("created"))

\* process(): a current stage; pipeline.trigger() fails and the error is
\* returned.
ProcessTriggerFailed(t) ==
    /\ pc[t] = "idle"
    /\ user_courses.current_stage_id # NULL
    /\ op' = [op EXCEPT ![t] = "push"]
    /\ stage_slug' = [stage_slug EXCEPT ![t] = user_courses.current_stage_id]
    /\ result' = [result EXCEPT ![t] = "KubernetesError"]
    /\ via' = [via EXCEPT ![t] = "none"]
    /\ job' = [job EXCEPT ![t] = NoJob]
    /\ watch' = [watch EXCEPT ![t] = NoWatch]
    /\ Goto(t, AfterTrigger("failed"))
    /\ UNCHANGED <<storeVars, user_course, user_stage>>

\* activate() that sets the flag and leaves current_stage_id as read.
ActivatedUserCourseNoCurrent(course, first) == [course EXCEPT !.activated = TRUE]

\* The local user_course activate() writes back: activated, and the first
\* stage as current when the course has one.
ActivatedUserCourse(course, first) ==
    IF first = NULL THEN [course EXCEPT !.activated = TRUE]
    ELSE [course EXCEPT !.activated = TRUE, !.current_stage_id = first]

\* activate(): begin, create_user_stage for the first stage,
\* update_user_course, commit.  A uniqueness violation of the insert is
\* returned as Conflict and the transaction is dropped.
Activate(t) ==
    /\ pc[t] = "activate"
    /\ IF FirstStage # NULL /\ UniqueViolation(user_stages, FirstStage)
       THEN /\ Return(t, "Conflict")
            /\ UNCHANGED storeVars
       ELSE /\ user_stages' =
                 IF FirstStage = NULL THEN user_stages
                 ELSE CreateUserStage(user_stages,
                                      NewUserStage(user_stages, FirstStage))
            /\ user_courses' =
                 UpdateUserCourse(user_courses,
                                  ActivatedUserCourse(user_course[t], FirstStage))
            /\ Return(t, "Ok")
    /\ UNCHANGED <<op, stage_slug>>

\* `Err(_) => break`: the table user_stages after the loop has ended
\* without the callback; nothing is written.
StoppedWatchStore(rows, stage) == rows

\* A poll of the watch task returns Err for resource (api.get failed, or
\* the conditions did not deserialize): the loop breaks, the callback is
\* dropped and the task ends.
WatchPollFails(t, resource) ==
    /\ pc[t] = "watch"
    /\ Status(resource) = "Err"
    /\ Return(t, "WatchStopped")
    /\ user_stages' = StoppedWatchStore(user_stages, stage_slug[t])
    /\ UNCHANGED <<user_courses, op, stage_slug>>

WatchStopped(t) == \E resource \in PipelineRuns : WatchPollFails(t, resource)

\* A poll of the watch task returns Ok(false) for resource: the task
\* waits for the next tick.
WatchPollContinues(t, resource) ==
    /\ pc[t] = "watch"
    /\ watch[t].polls < MaxPolls
    /\ Status(resource) = "Ok(false)"
    /\ watch' = [watch EXCEPT ![t] = Polled(@)]
    /\ UNCHANGED <<storeVars, pc, op, stage_slug, user_course, user_stage,
                   result, via, job>>

WatchContinue(t) ==
    \E resource \in PipelineRuns : WatchPollContinues(t, resource)

(* ------------------------------------------------------------------ *)
(* StageService::complete                                              *)
(* ------------------------------------------------------------------ *)

\* The checks with the already-completed one left out.
ValidateNoCompletedCheck(course, stage) ==
    IF stage.status # "in_progress" THEN "StageNotInProgress"
    ELSE IF course.current_stage_id # stage.stage_id THEN "StageOutOfOrder"
    ELSE "pass"

\* The checks with the out-of-order one left out.
ValidateNoOrderCheck(course, stage) ==
    IF stage.status = "completed" THEN "StageAlreadyCompleted"
    ELSE IF stage.status # "in_progress" THEN "StageNotInProgress"
    ELSE "pass"

\* The checks with the out-of-order one made first.
ValidateOrderFirst(course, stage) ==
    IF course.current_stage_id # stage.stage_id THEN "StageOutOfOrder"
    ELSE IF stage.status = "completed" THEN "StageAlreadyCompleted"
    ELSE IF stage.status # "in_progress" THEN "StageNotInProgress"
    ELSE "pass"

\* "Validate the stage can be completed": the three checks, in order.
Validate(course, stage) ==
    IF stage.status = "completed" THEN "StageAlreadyCompleted"
    ELSE IF stage.status # "in_progress" THEN "StageNotInProgress"
    ELSE IF course.current_stage_id # stage.stage_id THEN "StageOutOfOrder"
    ELSE "pass"

\* complete() begins: get_user_course reads the enrollment.
BeginComplete(t, slug) ==
    /\ op' = [op EXCEPT ![t] = "complete"]
    /\ stage_slug' = [stage_slug EXCEPT ![t] = slug]
    /\ result' = [result EXCEPT ![t] = "none"]
    /\ user_course' = [user_course EXCEPT ![t] = user_courses]
    /\ Goto(t, "get_user_stage")
    /\ UNCHANGED <<storeVars, user_stage>>

\* complete(user, course, slug) called by the Tekton webhook handler or by
\* the complete_stage HTTP handler, for any stage of the course.
CompleteCall(t, slug) ==
    /\ pc[t] = "idle"
    /\ BeginComplete(t, slug)
    /\ via' = [via EXCEPT ![t] = "http"]
    /\ job' = [job EXCEPT ![t] = NoJob]
    /\ watch' = [watch EXCEPT ![t] = NoWatch]

\* A callback that completes whichever stage is current when it runs.
CallbackStageLatest(captured, current) == current

\* The stage the callback of process() completes: current_stage_slug as
\* the closure captured it (async move) when the job was submitted.
CallbackStage(captured, current) == captured

\* A poll of the watch task returns Ok(true) for resource: the callback
\* calls complete() for the stage that was current when the job was
\* submitted.
WatchPollSucceeds(t, resource) ==
    /\ pc[t] = "watch"
    /\ Status(resource) = "Ok(true)"
    /\ watch' = [watch EXCEPT ![t] = [Polled(@) EXCEPT !.callbacks = @ + 1]]
    /\ BeginComplete(t, CallbackStage(stage_slug[t],
                                      user_courses.current_stage_id))
    /\ via' = [via EXCEPT ![t] = "watch"]
    /\ UNCHANGED job

WatchSucceeded(t) ==
    \E resource \in PipelineRuns : WatchPollSucceeds(t, resource)

\* A poll of the watch task gets resource.
WatchPoll(t, resource) ==
    \/ WatchPollFails(t, resource)
    \/ WatchPollContinues(t, resource)
    \/ WatchPollSucceeds(t, resource)

\* get_user_stage, then the validation.
GetUserStage(t) ==
    /\ pc[t] = "get_user_stage"
    /\ LET rows == {r \in user_stages : r.stage_id = stage_slug[t]}
       IN  IF rows = {}
           THEN Return(t, "NotFound")
           ELSE \E r \in rows :
                  IF Validate(user_course[t], r) = "pass"
                  THEN /\ Goto(t, "transaction")
                       /\ user_stage' = [user_stage EXCEPT ![t] = r]
                       /\ UNCHANGED <<user_course, result, via, job, watch>>
                  ELSE Return(t, Validate(user_course[t], r))
    /\ UNCHANGED <<storeVars, op, stage_slug>>

\* start_next_stage(): the local updated_user_course it writes back.
UpdatedUserCourse(course, next) ==
    IF next = NULL
    THEN [course EXCEPT !.completed_stage_count = @ + 1]
    ELSE [course EXCEPT !.current_stage_id = next,
                        !.completed_stage_count = @ + 1]

\* A transaction dropped without commit is rolled back: the rows stay as
\* stored, whatever the transaction had written.
DroppedKeepsWrites(stored, written) == written

Dropped(stored, written) == stored

\* complete(): begin, update_user_stage(passed().complete()),
\* start_next_stage (find_next_stage_by_slug, create_user_stage,
\* update_user_course), commit.  A database error of the insert is returned
\* as Conflict and the transaction is dropped.
CompleteTransaction(t) ==
    /\ pc[t] = "transaction"
    /\ LET m == Complete(Passed(user_stage[t]))
           next == FindNextStageBySlug(stage_slug[t])
           updated == UpdateUserStage(user_stages, m)
       IN  IF next # NULL /\ UniqueViolation(updated, next)
           THEN /\ Return(t, "Conflict")
                /\ user_stages' = Dropped(user_stages, updated)
                /\ UNCHANGED user_courses
           ELSE /\ user_stages' =
                     IF next = NULL THEN updated
                     ELSE CreateUserStage(updated, NewUserStage(updated, next))
                /\ user_courses' =
                     UpdateUserCourse(user_courses,
                                      UpdatedUserCourse(user_course[t], next))
                /\ Return(t, "Ok")
    /\ UNCHANGED <<op, stage_slug>>

\* The transaction fails with a database error other than the uniqueness
\* violation (begin, update_user_stage, update_user_course or commit
\* returns Err): the `?` returns DatabaseError and the transaction, with
\* the update of the stage's row it may have made, is dropped.
CompleteTransactionFailed(t) ==
    /\ pc[t] = "transaction"
    /\ LET m == Complete(Passed(user_stage[t]))
       IN  \E written \in {user_stages, UpdateUserStage(user_stages, m)} :
              user_stages' = Dropped(user_stages, written)
    /\ Return(t, "DatabaseError")
    /\ UNCHANGED <<user_courses, op, stage_slug>>

(* ------------------------------------------------------------------ *)
(* The webhook handlers                                                *)
(* ------------------------------------------------------------------ *)

\* From<&ApiError> for StatusCode, and StatusCode::OK of a handler that
\* returns Ok: the status of the HTTP response.
StatusCode(r) ==
    CASE r = "Ok" -> 200
      [] r \in {"StageAlreadyCompleted", "StageNotInProgress",
                "StageOutOfOrder"} -> 400
      [] r = "Unauthorized" -> 401
      [] r = "NotFound" -> 404
      [] r = "Conflict" -> 409
      [] OTHER -> 500

\* The push events Gitea may send for the enrollment's repository or its
\* template: to the main branch or to another one.
GiteaEvents ==
    [reference : {"refs/heads/main", "refs/heads/dev"}, template : BOOLEAN,
     name : {EnrollmentRepo}]

\* The push events of repositories that belong to no enrollment: named
\* after a uuid no enrollment has, or after no uuid.
StrayGiteaEvents ==
    [reference : {"refs/heads/main", "refs/heads/dev"}, template : BOOLEAN,
     name : {<<"b">>, <<>>}]

\* The skip that looks at the repository only.
SkipsTemplateOnly(e) == e.template

\* repository.template || reference.ne("refs/heads/main")
Skips(e) == e.template \/ e.reference # "refs/heads/main"

\* process() returns r before it has found the enrollment.
ProcessReturn(t, r) ==
    /\ op' = [op EXCEPT ![t] = "push"]
    /\ stage_slug' = [stage_slug EXCEPT ![t] = ""]
    /\ Return(t, r)
    /\ UNCHANGED storeVars

\* handle_gitea_webhook: Ok at once for a skipped event; otherwise
\* process(), whose error is the handler's: Uuid::parse_str, then
\* get_user_course_by_id, then the push is handled for the enrollment.
HandleGiteaWebhook(t, e) ==
    /\ pc[t] = "idle"
    /\ IF Skips(e)
       THEN /\ op' = [op EXCEPT ![t] = "push"]
            /\ stage_slug' = [stage_slug EXCEPT ![t] = ""]
            /\ result' = [result EXCEPT ![t] = "Ok"]
            /\ via' = [via EXCEPT ![t] = "skipped"]
            /\ job' = [job EXCEPT ![t] = NoJob]
            /\ watch' = [watch EXCEPT ![t] = NoWatch]
            /\ UNCHANGED <<storeVars, pc, user_course, user_stage>>
       ELSE IF ~ParsesAsUuid(e.name) THEN ProcessReturn(t, "InvalidUuid")
       ELSE IF e.name # EnrollmentRepo THEN ProcessReturn(t, "NotFound")
       ELSE \/ ProcessActivate(t)
            \/ ProcessTrigger(t)
            \/ ProcessTriggerFailed(t)

\* Run and test task both succeeded.
Succeeded == [status |-> "Succeeded", test |-> "Succeeded"]

\* The status of the run and of its test task in a notification.
PipelineStatuses ==
    {Succeeded,
     [status |-> "Failed", test |-> "Succeeded"],
     [status |-> "Succeeded", test |-> "Failed"],
     [status |-> "Succeeded", test |-> "Running"]}

\* A notification for (repo, course, stage) with the given secret.
PipelineEvent(r, g, x, st) ==
    [repo |-> r, course |-> CourseSlug, stage |-> g, secret |-> x,
     status |-> st.status, test |-> st.test]

\* The notifications Tekton, or anyone else, may post.  Signed with
\* auth_secret: a success for any stage of the enrollment, of another
\* repository or of no uuid, and any status for the first stage of the
\* enrollment.  With the empty SECRET of the job, or signed with another
\* key: any status for the first stage of the enrollment.
PipelineEvents ==
    {PipelineEvent(r, g, HmacSha256Sign(r \o CourseSlug \o g, <<"a">>),
                   Succeeded) :
        r \in {<<>>, EnrollmentRepo, <<"b">>}, g \in {<<"a">>, <<"b">>}}
    \cup
    {PipelineEvent(EnrollmentRepo, <<"a">>, x, st) :
        x \in {<<>>} \cup {HmacSha256Sign(EnrollmentRepo \o CourseSlug \o <<"a">>,
                                           k) : k \in AuthSecrets},
        st \in PipelineStatuses}

\* The status checks that complete the stage whatever the test task says.
CompletesStageAnyTest(e) == e.status = "Succeeded"

\* event.status is "Succeeded" and event.tasks.test.status is "Succeeded":
\* every other notification is logged and answered with Ok.
CompletesStage(e) == e.status = "Succeeded" /\ e.test = "Succeeded"

\* The handler returns r before StageService::complete has read the
\* enrollment.
TektonReturn(t, r) ==
    /\ op' = [op EXCEPT ![t] = "tekton"]
    /\ stage_slug' = [stage_slug EXCEPT ![t] = ""]
    /\ Return(t, r)
    /\ UNCHANGED storeVars

\* handle_tekton_webhook for a notification e: the signature check, the
\* status checks, Uuid::parse_str, get_user_course_by_id, and the call of
\* StageService::complete up to its get_user_course.
HandleTektonEvent(t, e) ==
    /\ pc[t] = "idle"
    /\ IF TektonVerdict(e) = "Unauthorized" THEN TektonReturn(t, "Unauthorized")
       ELSE IF ~CompletesStage(e) THEN TektonReturn(t, "Ok")
       ELSE IF ~ParsesAsUuid(e.repo) THEN TektonReturn(t, "InvalidUuid")
       ELSE IF e.repo # EnrollmentRepo THEN TektonReturn(t, "NotFound")
       ELSE /\ BeginComplete(t, StageOfText(e.stage))
            /\ via' = [via EXCEPT ![t] = "tekton"]
            /\ job' = [job EXCEPT ![t] = NoJob]
            /\ watch' = [watch EXCEPT ![t] = NoWatch]

(* ------------------------------------------------------------------ *)
(* CourseService::update_user_course                                   *)
(* ------------------------------------------------------------------ *)

\* get_user_course, then the three request fields are set on the local row.
UpdateUserCourseCall(t, req) ==
    /\ pc[t] = "idle"
    /\ op' = [op EXCEPT ![t] = "update"]
    /\ stage_slug' = [stage_slug EXCEPT ![t] = ""]
    /\ result' = [result EXCEPT ![t] = "none"]
    /\ user_course' = [user_course EXCEPT ![t] =
          [user_courses EXCEPT !.proficiency = req.proficiency,
                               !.cadence = req.cadence,
                               !.accountability = req.accountability]]
    /\ Goto(t, "patch")
    /\ via' = [via EXCEPT ![t] = "none"]
    /\ job' = [job EXCEPT ![t] = NoJob]
    /\ watch' = [watch EXCEPT ![t] = NoWatch]
    /\ UNCHANGED <<storeVars, user_stage>>

\* begin, update_user_course(&mut tx, &user_course), commit.
UpdateUserCourseTransaction(t) ==
    /\ pc[t] = "patch"
    /\ user_courses' = UpdateUserCourse(user_courses, user_course[t])
    /\ Return(t, "Ok")
    /\ UNCHANGED <<user_stages, op, stage_slug>>

(* ------------------------------------------------------------------ *)
(* Specifications                                                      *)
(* ------------------------------------------------------------------ *)

Other == UNCHANGED <<course_schema, histVars, sigVars>>

\* Any number of the handlers run at once, in any interleaving of their
\* steps.
Next ==
    \/ \E t \in Tasks : ProcessActivate(t) /\ Other
    \/ \E t \in Tasks : ProcessTrigger(t) /\ Other
    \/ \E t \in Tasks : ProcessTriggerFailed(t) /\ Other
    \/ \E t \in Tasks : Activate(t) /\ Other
    \/ \E t \in Tasks : WatchSucceeded(t) /\ Other
    \/ \E t \in Tasks : WatchStopped(t) /\ Other
    \/ \E t \in Tasks : \E slug \in Slugs : CompleteCall(t, slug) /\ Other
    \/ \E t \in Tasks : GetUserStage(t) /\ Other
    \/ \E t \in Tasks : CompleteTransaction(t) /\ Other
    \/ \E t \in Tasks : \E req \in UpdateRequests :
          UpdateUserCourseCall(t, req) /\ Other
    \/ \E t \in Tasks : UpdateUserCourseTransaction(t) /\ Other

Spec == Init /\ [][Next]_vars

\* The push and completion handlers alone, in any interleaving, with the
\* database failing a completion's transaction at any time: no user-course
\* update runs.
CompletionNext ==
    \/ \E t \in Tasks : ProcessActivate(t) /\ Other
    \/ \E t \in Tasks : ProcessTrigger(t) /\ Other
    \/ \E t \in Tasks : ProcessTriggerFailed(t) /\ Other
    \/ \E t \in Tasks : Activate(t) /\ Other
    \/ \E t \in Tasks : WatchSucceeded(t) /\ Other
    \/ \E t \in Tasks : WatchStopped(t) /\ Other
    \/ \E t \in Tasks : \E slug \in Slugs : CompleteCall(t, slug) /\ Other
    \/ \E t \in Tasks : GetUserStage(t) /\ Other
    \/ \E t \in Tasks : CompleteTransaction(t) /\ Other
    \/ \E t \in Tasks : CompleteTransactionFailed(t) /\ Other

CompletionSpec == Init /\ [][CompletionNext]_vars

\* Pushes and the watch tasks they spawn, with every outcome of every
\* poll: the only completions are those of the watch callbacks.
WatchNext ==
    \/ \E t \in Tasks : ProcessActivate(t) /\ Other
    \/ \E t \in Tasks : ProcessTrigger(t) /\ Other
    \/ \E t \in Tasks : ProcessTriggerFailed(t) /\ Other
    \/ \E t \in Tasks : Activate(t) /\ Other
    \/ \E t \in Tasks : WatchContinue(t) /\ Other
    \/ \E t \in Tasks : WatchSucceeded(t) /\ Other
    \/ \E t \in Tasks : WatchStopped(t) /\ Other
    \/ \E t \in Tasks : GetUserStage(t) /\ Other
    \/ \E t \in Tasks : CompleteTransaction(t) /\ Other

WatchSpec == Init /\ [][WatchNext]_vars

\* The two webhook handlers, any number of requests at once, with the
\* watch tasks of the pushes.
WebhookNext ==
    \/ \E t \in Tasks : \E e \in GiteaEvents : HandleGiteaWebhook(t, e) /\ Other
    \/ \E t \in Tasks : Activate(t) /\ Other
    \/ \E t \in Tasks : WatchSucceeded(t) /\ Other
    \/ \E t \in Tasks : WatchStopped(t) /\ Other
    \/ \E t \in Tasks : \E e \in PipelineEvents : HandleTektonEvent(t, e) /\ Other
    \/ \E t \in Tasks : GetUserStage(t) /\ Other
    \/ \E t \in Tasks : CompleteTransaction(t) /\ Other

WebhookSpec == Init /\ [][WebhookNext]_vars

\* The push webhook alone, any number of requests at once, for the
\* enrollment's repository and for repositories of no enrollment, with the
\* watch tasks of the pushes.
PushNext ==
    \/ \E t \in Tasks : \E e \in GiteaEvents \cup StrayGiteaEvents :
          HandleGiteaWebhook(t, e) /\ Other
    \/ \E t \in Tasks : Activate(t) /\ Other
    \/ \E t \in Tasks : WatchSucceeded(t) /\ Other
    \/ \E t \in Tasks : WatchStopped(t) /\ Other
    \/ \E t \in Tasks : GetUserStage(t) /\ Other
    \/ \E t \in Tasks : CompleteTransaction(t) /\ Other

PushSpec == Init /\ [][PushNext]_vars

\* The one client of the sequential specification.
SeqTasks == {CHOOSE t \in Tasks : \A u \in Tasks : t <= u}

\* History of calls made one after another: the committed rows when a call
\* begins, and the last two calls that returned.
Record(t) ==
    /\ call_start' = IF pc[t] = "idle" THEN <<user_courses, user_stages>>
                     ELSE call_start
    /\ IF pc'[t] = "idle"
       THEN /\ prev_call' = last_call
            /\ last_call' = [op |-> op'[t], stage |-> stage_slug'[t],
                             result |-> result'[t], before |-> call_start',
                             after |-> <<user_courses', user_stages'>>]
       ELSE UNCHANGED <<prev_call, last_call>>
    /\ UNCHANGED <<course_schema, sigVars>>

\* One client calls the handlers one after another; a job it submitted
\* ends (the callback has run, or the watch has stopped) before its next
\* call.
SeqNext ==
    \/ \E t \in SeqTasks : ProcessActivate(t) /\ Record(t)
    \/ \E t \in SeqTasks : ProcessTrigger(t) /\ Record(t)
    \/ \E t \in SeqTasks : ProcessTriggerFailed(t) /\ Record(t)
    \/ \E t \in SeqTasks : Activate(t) /\ Record(t)
    \/ \E t \in SeqTasks : WatchSucceeded(t) /\ Record(t)
    \/ \E t \in SeqTasks : WatchStopped(t) /\ Record(t)
    \/ \E t \in SeqTasks : \E slug \in Slugs : CompleteCall(t, slug) /\ Record(t)
    \/ \E t \in SeqTasks : GetUserStage(t) /\ Record(t)
    \/ \E t \in SeqTasks : CompleteTransaction(t) /\ Record(t)
    \/ \E t \in SeqTasks : \E req \in UpdateRequests :
          UpdateUserCourseCall(t, req) /\ Record(t)
    \/ \E t \in SeqTasks : UpdateUserCourseTransaction(t) /\ Record(t)

SeqInit ==
    /\ course_schema \in {SmallCourse, ExampleCourse, TwoExtensionCourse}
    /\ StoreInit
    /\ NoSignature

SeqSpec == SeqInit /\ [][SeqNext]_vars

(* ------------------------------------------------------------------ *)
(* Properties of the stage progression                                 *)
(* ------------------------------------------------------------------ *)

RowsOf(rows, stage) == {r \in rows : r.stage_id = stage}

InProgressRows == {r \in user_stages : r.status = "in_progress"}

AllStagesCompleted ==
    \A s \in Slugs : \E r \in RowsOf(user_stages, s) : r.status = "completed"

\* Task t's last call was complete(slug) and it has returned.
FinishedComplete(t, slug) ==
    pc[t] = "idle" /\ op[t] = "complete" /\ stage_slug[t] = slug

\* Task t takes the step that commits its completion transaction.
CommitsCompletion(t) ==
    pc[t] = "transaction" /\ pc'[t] = "idle" /\ result'[t] = "Ok"

C2_OneSuccessOneAlreadyCompleted ==
    \A p \in Tasks : \A q \in Tasks \ {p} : \A slug \in Slugs :
        (/\ FinishedComplete(p, slug) /\ FinishedComplete(q, slug)
         /\ result[p] = "Ok"
         /\ result[q] \in {"Ok", "Conflict", "StageAlreadyCompleted"})
        => result[q] = "StageAlreadyCompleted"

\* C3: the enrollment has at most one in_progress row, and exactly one
\* when it is activated and not all stages of its course are completed.
C3_OneInProgress ==
    /\ Cardinality(InProgressRows) <= 1
    /\ (user_courses.activated /\ ~AllStagesCompleted)
          => Cardinality(InProgressRows) = 1

\* An activated enrollment that completed a stage and has the next one in
\* progress.
C3_Advanced ==
    /\ user_courses.activated
    /\ \E r \in user_stages : r.status = "completed"
    /\ Cardinality(InProgressRows) = 1
    /\ ~AllStagesCompleted

\* C4: current_stage_id is the stage of the in_progress row, and is null
\* while the enrollment is unactivated.
C4_CurrentIsInProgress ==
    /\ ~user_courses.activated => user_courses.current_stage_id = NULL
    /\ \A r \in InProgressRows : user_courses.current_stage_id = r.stage_id

\* C5: a completion transaction commits only when the stored row it
\* completes is in_progress and its stage is the stored current stage (so
\* no completed row is written again).
C5_CompletedOnlyFromInProgress ==
    [][\A t \in Tasks :
          CommitsCompletion(t)
          => /\ \E r \in user_stages :
                   r.id = user_stage[t].id /\ r.status = "in_progress"
             /\ user_courses.current_stage_id = stage_slug[t]]_vars

\* C6: completed_stage_count rises by exactly 1 in a step in which a
\* complete call commits and is unchanged by every other step (failed
\* completions and user-course updates among them); it never decreases.
C6_CountPlusOnePerSuccess ==
    [][/\ user_courses'.completed_stage_count
             >= user_courses.completed_stage_count
       /\ user_courses'.completed_stage_count
             = user_courses.completed_stage_count
               + (IF \E t \in Tasks : CommitsCompletion(t) THEN 1 ELSE 0)]_vars

\* The stored row of stage in a recorded store, or NoUserStage.
StoredUserStage(store, stage) ==
    IF RowsOf(store[2], stage) = {} THEN NoUserStage
    ELSE CHOOSE r \in RowsOf(store[2], stage) : TRUE

ValidatesOtherStage(t) ==
    /\ pc[t] = "get_user_stage" /\ pc'[t] # pc[t]
    /\ user_course[t].current_stage_id # stage_slug[t]

\* C8 as stated: complete for a stage other than the current stage fails
\* with StageOutOfOrder and changes nothing stored.
C8_AlwaysOutOfOrder ==
    [][\A t \in Tasks :
          ValidatesOtherStage(t)
          => /\ pc'[t] = "idle" /\ result'[t] = "StageOutOfOrder"
             /\ UNCHANGED storeVars]_vars

\* C8 amended: complete for a stage other than the current stage it read
\* fails and changes nothing stored; the error is NotFound when the stage
\* has no row, StageAlreadyCompleted when its row is completed, and
\* StageOutOfOrder when its row is in_progress.
C8_FailsUnchanged ==
    [][\A t \in Tasks :
          ValidatesOtherStage(t)
          => /\ pc'[t] = "idle"
             /\ UNCHANGED storeVars
             /\ result'[t] =
                  IF RowsOf(user_stages, stage_slug[t]) = {} THEN "NotFound"
                  ELSE IF \A r \in RowsOf(user_stages, stage_slug[t]) :
                              r.status = "completed"
                       THEN "StageAlreadyCompleted"
                       ELSE "StageOutOfOrder"]_vars

\* A complete call was refused as out of order.
C8_OutOfOrderReturned ==
    \E t \in Tasks :
        /\ pc[t] = "idle" /\ op[t] = "complete"
        /\ result[t] = "StageOutOfOrder"
        /\ user_courses.current_stage_id # stage_slug[t]

BaseSlugs == {s.slug : s \in {x \in Stages : x.extension = 0}}

HandleTektonWebhook ==
    /\ verdict = "none"
    /\ \E e \in Events :
          /\ event' = e
          /\ verdict' = TektonVerdict(e)
    /\ accepted_event' = NoEvent
    /\ UNCHANGED <<course_schema, storeVars, taskVars, histVars, auth_secret>>

\* e and f differ in exactly one of repo, course, stage and secret.
DifferInOneField(e, f) ==
    Cardinality({k \in {"repo", "course", "stage", "secret"} : e[k] # f[k]}) = 1

\* An accepted notification arrives again with one field changed.
HandleChangedNotification ==
    /\ verdict = "accepted"
    /\ accepted_event = NoEvent
    /\ \E k \in {"repo", "course", "stage", "secret"} :
          \E v \in IF k = "secret" THEN Secrets ELSE Fields :
             LET e == [event EXCEPT ![k] = v]
             IN  /\ DifferInOneField(event, e)
                 /\ event' = e
                 /\ verdict' = TektonVerdict(e)
    /\ accepted_event' = event
    /\ UNCHANGED <<course_schema, storeVars, taskVars, histVars, auth_secret>>

SigInit ==
    /\ course_schema = SmallCourse
    /\ StoreInit
    /\ event = NoEvent
    /\ verdict = "none"
    /\ accepted_event = NoEvent
    /\ auth_secret \in AuthSecrets

SigNext ==
    \/ HandleTektonWebhook
    \/ HandleChangedNotification

SigSpec == SigInit /\ [][SigNext]_vars

\* C10: a notification gets past the verification exactly when its secret
\* is the lower-case hex HMAC-SHA256, under auth_secret, of repo, course
\* and stage joined in that order; an accepted notification with any one
\* of repo, course, stage and secret changed is rejected.
C10_AcceptedIffSigned ==
    /\ verdict # "none"
       => (verdict = "accepted"
           <=> event.secret
                 = HexEncode(HmacSha256(auth_secret,
                       event.repo \o event.course \o event.stage)))
    /\ verdict \in {"none", "accepted", "Unauthorized"}
    /\ accepted_event # NoEvent => verdict = "Unauthorized"

\* An accepted notification came back with its stage changed and was
\* rejected.
C10_ChangedRejected ==
    /\ accepted_event # NoEvent
    /\ accepted_event.stage # event.stage
    /\ verdict = "Unauthorized"
    /\ HmacSha256Verify(Payload(accepted_event), auth_secret,
                        accepted_event.secret)

(* ------------------------------------------------------------------ *)
(* Properties of pushes, watch tasks and notifications                 *)
(* ------------------------------------------------------------------ *)

\* Task t takes the first step of process() for a push to main.
PushBegins(t) ==
    ProcessActivate(t) \/ ProcessTrigger(t) \/ ProcessTriggerFailed(t)

\* C11 as stated: a push for an unactivated enrollment goes to activate() without
\* creating a PipelineRun or a watch task, and activate() commits in one
\* step exactly one new row, in_progress and for the lowest-weight stage,
\* with current_stage_id set to that stage and activated true, and returns
\* with no job and no watch.
C11_PushActivates ==
    [][\A t \in Tasks :
          /\ (PushBegins(t) /\ ~user_courses.activated)
             => /\ pc'[t] = "activate"
                /\ ~job'[t].created /\ watch'[t] = NoWatch
                /\ UNCHANGED storeVars
          /\ (pc[t] = "activate" /\ pc'[t] # "activate"
              /\ ~user_courses.activated)
             => /\ pc'[t] = "idle" /\ result'[t] = "Ok"
                /\ \E r \in user_stages' :
                      /\ user_stages' = user_stages \cup {r}
                      /\ r \notin user_stages
                      /\ r.status = "in_progress"
                      /\ r.stage_id \in Slugs
                      /\ \A o \in Slugs : Weight(r.stage_id) <= Weight(o)
                      /\ user_courses'.current_stage_id = r.stage_id
                /\ Cardinality(user_stages') = 1
                /\ user_courses'.activated
                /\ ~job'[t].created /\ watch'[t] = NoWatch]_vars

\* Task t is inside complete() and takes the step that returns an error.
CompleteFails(t) ==
    /\ op[t] = "complete" /\ pc[t] \in {"get_user_stage", "transaction"}
    /\ pc'[t] = "idle" /\ result'[t] # "Ok"

\* C12: a complete call that fails before its transaction commits (its
\* validation refuses, the insert of the next stage's row violates the
\* uniqueness constraint and is returned as Conflict, or the database
\* fails) leaves the stored enrollment and stage rows exactly as they were.
C12_FailedCompleteChangesNothing ==
    [][\A t \in Tasks : CompleteFails(t) => UNCHANGED storeVars]_vars

\* A complete call has hit the uniqueness constraint inside its
\* transaction and returned Conflict.
C12_ConflictReturned ==
    \E t \in Tasks :
        /\ pc[t] = "idle" /\ op[t] = "complete" /\ result[t] = "Conflict"
        /\ \E r \in RowsOf(user_stages, stage_slug[t]) : r.status = "completed"

SucceededTrue == [type |-> "Succeeded", status |-> "True"]

\* C13: the callback of a watch is invoked at most once, only by a poll
\* that observed the run's Succeeded condition with status True, and the
\* watch task makes no poll after it.
C13_CallbackOnceOnSuccess ==
    [][\A t \in Tasks :
          /\ watch'[t].callbacks <= 1
          /\ watch'[t].callbacks > watch[t].callbacks
             => /\ watch'[t].polls = watch[t].polls + 1
                /\ \E resource \in PipelineRuns : WatchPoll(t, resource)
                /\ \A resource \in PipelineRuns :
                      WatchPoll(t, resource)
                      => resource.reached /\ SucceededTrue \in resource.conditions
          /\ watch[t].callbacks >= 1
             => watch'[t] \in {watch[t], NoWatch}]_vars

\* The callback of a watch is running its transaction, after polls that
\* found the run unfinished.
C13_CallbackRunning ==
    \E t \in Tasks :
        /\ via[t] = "watch" /\ pc[t] = "transaction"
        /\ watch[t].callbacks = 1 /\ watch[t].polls > 1

\* C14 as stated: a poll that observes the run failed (its Succeeded
\* condition is False) ends the watch task, without the callback.
C14_FailedRunStopsWatch ==
    [][\A t \in Tasks :
          WatchPoll(t, FailedRun)
          => pc'[t] = "idle" /\ watch'[t].callbacks = 0]_vars

\* C15 as stated: a poll that fails because the platform cannot be
\* reached does not end the watch task.
C15_FailedPollKeepsWatching ==
    [][\A t \in Tasks :
          WatchPoll(t, UnreachableRun) => pc'[t] = "watch"]_vars

\* C16 as stated: when the completion a notification asks for is refused
\* because the stage is already completed (the watch callback came
\* first), or with a conflict, nothing stored changes and the response of
\* handle_tekton_webhook is 200.
C16_SecondDeliveryBenign ==
    [][\A t \in Tasks :
          (/\ via[t] = "tekton" /\ pc[t] # "idle" /\ pc'[t] = "idle"
           /\ result'[t] \in {"StageAlreadyCompleted", "Conflict"})
          => /\ UNCHANGED storeVars
             /\ StatusCode(result'[t]) = 200]_vars

\* Task t, idle, takes a step.
Called(t) ==
    /\ pc[t] = "idle"
    /\ <<pc[t], op[t], stage_slug[t], result[t], via[t]>>'
          # <<pc[t], op[t], stage_slug[t], result[t], via[t]>>

\* C17: a notification whose secret does not verify is answered with
\* Unauthorized (401) in the step that receives it: nothing stored changes
\* and the enrollment is not read, whatever its status fields are.  (A
\* call either is such a refusal, or is the handling of no notification
\* that does not verify.)
C17_UnverifiedRejected ==
    [][\A t \in Tasks :
          Called(t)
          => \/ /\ pc'[t] = "idle"
                /\ result'[t] = "Unauthorized"
                /\ StatusCode(result'[t]) = 401
                /\ user_course'[t] = NewUserCourse
                /\ UNCHANGED storeVars
             \/ \A e \in PipelineEvents :
                   ~HmacSha256Verify(Payload(e), auth_secret, e.secret)
                   => ~HandleTektonEvent(t, e)]_vars

\* A notification was refused as Unauthorized while the enrollment had a
\* stage in progress.
C17_Refused ==
    \E t \in Tasks :
        /\ pc[t] = "idle" /\ op[t] = "tekton" /\ result[t] = "Unauthorized"
        /\ InProgressRows # {}

\* C18 as stated: the PipelineRun of every job carries as SECRET the
\* signature of its REPO, COURSE and STAGE under auth_secret, so that a
\* notification echoing the four passes the signature check.
C18_JobSecretIsSignature ==
    \A t \in Tasks :
        job[t].created
        => /\ job[t].SECRET =
                HmacSha256Sign(job[t].REPO \o job[t].COURSE \o job[t].STAGE,
                               auth_secret)
           /\ TektonVerdict([repo |-> job[t].REPO, course |-> job[t].COURSE,
                             stage |-> job[t].STAGE,
                             secret |-> job[t].SECRET]) = "accepted"

\* C19: a push event for another ref than refs/heads/main, or of a
\* template repository, is answered with 200 in the step that receives it:
\* nothing stored is read or changed, the enrollment is not activated, and
\* no job and no watch task is created.
C19_SkippedPushNoEffect ==
    [][\A t \in Tasks : \A e \in GiteaEvents \cup StrayGiteaEvents :
          (/\ HandleGiteaWebhook(t, e)
           /\ (e.template \/ e.reference # "refs/heads/main"))
          => /\ pc'[t] = "idle"
             /\ result'[t] = "Ok" /\ StatusCode(result'[t]) = 200
             /\ ~job'[t].created /\ watch'[t] = NoWatch
             /\ user_course'[t] = user_course[t]
             /\ UNCHANGED storeVars]_vars

\* A push was skipped before any push had activated the enrollment.
C19_Skipped ==
    \E t \in Tasks :
        /\ pc[t] = "idle" /\ op[t] = "push" /\ via[t] = "skipped"
        /\ result[t] = "Ok"
        /\ ~user_courses.activated /\ user_stages = {}

\* C20: a notification with a valid signature whose status, or whose test
\* task's status, is not "Succeeded" is answered with 200 in the step that
\* receives it, and nothing stored changes.  (A call either is such an
\* answer, or is the handling of no notification that verifies and has a
\* status other than "Succeeded".)
C20_NotSucceededIgnored ==
    [][\A t \in Tasks :
          Called(t)
          => \/ /\ pc'[t] = "idle"
                /\ result'[t] = "Ok" /\ StatusCode(result'[t]) = 200
                /\ UNCHANGED storeVars
             \/ \A e \in PipelineEvents :
                   (/\ (e.status # "Succeeded" \/ e.test # "Succeeded")
                    /\ HmacSha256Verify(Payload(e), auth_secret, e.secret))
                   => ~HandleTektonEvent(t, e)]_vars

\* A notification was answered with Ok without a completion, while the
\* enrollment had a stage in progress.
C20_Ignored ==
    \E t \in Tasks :
        /\ pc[t] = "idle" /\ op[t] = "tekton" /\ result[t] = "Ok"
        /\ InProgressRows # {}

(* ------------------------------------------------------------------ *)
(* Properties of the update, the preconditions and the jobs            *)
(* ------------------------------------------------------------------ *)

\* The progression fields of an enrollment.
Progression(course) ==
    <<course.current_stage_id, course.completed_stage_count, course.activated>>

\* C21 as stated: the step that commits a user-course update leaves the
\* stored current stage, completed stage count and activated flag as they
\* were stored, whatever committed between its read and its write.
C21_UpdateKeepsProgression ==
    [][\A t \in Tasks :
          (pc[t] = "patch" /\ pc'[t] = "idle")
          => Progression(user_courses') = Progression(user_courses)]_vars

\* C22 as stated: when a complete call commits, the stored row of the
\* completed stage has test passed, status completed and a completed_at.
C22_StoredRowPassed ==
    [][\A t \in Tasks :
          CommitsCompletion(t)
          => \A r \in user_stages' :
                r.id = user_stage[t].id
                => /\ r.test = "passed"
                   /\ r.status = "completed"
                   /\ r.completed_at # NULL]_vars

\* The statuses a stored user_stages row may carry: the two this service
\* writes, and one it does not ("pending"), which complete() checks for.
StoredStatuses == {"in_progress", "completed", "pending"}

\* The user_stages tables with at most one row per stage, of any status.
StoredUserStages ==
    {{[NewUserStage({}, s) EXCEPT !.status = pick[s]] :
         s \in {s \in Slugs : pick[s] # "none"}} :
        pick \in [Slugs -> {"none"} \cup StoredStatuses]}

\* Any stored enrollment and rows, no task running.
PreconditionInit ==
    /\ course_schema = SmallCourse
    /\ \E current \in Slugs \cup {NULL} :
          user_courses = [NewUserCourse EXCEPT !.current_stage_id = current,
                                               !.activated = TRUE]
    /\ user_stages \in StoredUserStages
    /\ pc = [t \in Tasks |-> "idle"]
    /\ op = [t \in Tasks |-> "none"]
    /\ stage_slug = [t \in Tasks |-> ""]
    /\ user_course = [t \in Tasks |-> NewUserCourse]
    /\ user_stage = [t \in Tasks |-> NoUserStage]
    /\ result = [t \in Tasks |-> "none"]
    /\ via = [t \in Tasks |-> "none"]
    /\ job = [t \in Tasks |-> NoJob]
    /\ watch = [t \in Tasks |-> NoWatch]
    /\ call_start = <<NewUserCourse, {}>>
    /\ last_call = NoCall
    /\ prev_call = NoCall
    /\ NoSignature

\* complete() called for any stage, on any stored enrollment and rows.
PreconditionNext ==
    \/ \E t \in Tasks : \E slug \in Slugs : CompleteCall(t, slug) /\ Other
    \/ \E t \in Tasks : GetUserStage(t) /\ Other
    \/ \E t \in Tasks : CompleteTransaction(t) /\ Other

PreconditionSpec == PreconditionInit /\ [][PreconditionNext]_vars

\* C23: complete() reports the first precondition that fails, in the order
\* not found, already completed, not in progress, out of order (against
\* the enrollment it read), each with its own error; a call that fails a
\* precondition returns at once, without a transaction and without a
\* write; only a call that passes them all goes on to its transaction.
C23_PreconditionsInOrder ==
    [][\A t \in Tasks :
          (pc[t] = "get_user_stage" /\ pc'[t] # pc[t])
          => LET rows == RowsOf(user_stages, stage_slug[t])
                 current == user_course[t].current_stage_id
                 fails(e) == /\ pc'[t] = "idle" /\ result'[t] = e
                             /\ UNCHANGED storeVars
             IN  /\ rows = {} => fails("NotFound")
                 /\ \A r \in rows :
                      /\ r.status = "completed"
                         => fails("StageAlreadyCompleted")
                      /\ r.status \notin {"completed", "in_progress"}
                         => fails("StageNotInProgress")
                      /\ (r.status = "in_progress" /\ current # stage_slug[t])
                         => fails("StageOutOfOrder")
                      /\ (r.status = "in_progress" /\ current = stage_slug[t])
                         => /\ pc'[t] = "transaction"
                            /\ UNCHANGED storeVars]_vars

\* A call was refused as not in progress for a stage that was not the
\* current one either, and another as already completed for a stage that
\* was not the current one.
C23_EarlierCheckWon ==
    \E t, u \in Tasks :
        /\ pc[t] = "idle" /\ result[t] = "StageNotInProgress"
        /\ user_courses.current_stage_id # stage_slug[t]
        /\ pc[u] = "idle" /\ result[u] = "StageAlreadyCompleted"
        /\ user_courses.current_stage_id # stage_slug[u]

\* C24 as stated: when a complete call commits for a stage that has no successor by
\* weight, the stored current stage stays as it was, no row is created,
\* and the completed stage count grows by one.
C24_LastStageKeepsCurrent ==
    [][\A t \in Tasks :
          (CommitsCompletion(t) /\ FindNextStageBySlug(stage_slug[t]) = NULL)
          => /\ user_courses'.current_stage_id = user_courses.current_stage_id
             /\ {r.id : r \in user_stages'} = {r.id : r \in user_stages}
             /\ user_courses'.completed_stage_count
                  = user_courses.completed_stage_count + 1]_vars

\* C25: a push whose job submission fails returns that error in the same
\* step: no PipelineRun, no watch task and no callback exist for it,
\* nothing stored changes, and the enrollment still has its current stage,
\* for which the next push submits.
C25_FailedSubmissionReturned ==
    [][\A t \in Tasks :
          (Called(t) /\ op'[t] = "push" /\ result'[t] = "KubernetesError")
          => /\ pc'[t] = "idle"
             /\ ~job'[t].created
             /\ watch'[t] = NoWatch
             /\ UNCHANGED storeVars
             /\ user_courses'.current_stage_id = stage_slug'[t]]_vars

\* The submission of one push failed, and another push has submitted a job
\* for the same stage.
C25_SubmittedAgain ==
    \E t, u \in Tasks :
        /\ pc[t] = "idle" /\ op[t] = "push" /\ result[t] = "KubernetesError"
        /\ pc[u] = "watch" /\ job[u].created
        /\ stage_slug[u] = stage_slug[t]
        /\ job[u].STAGE = StageText(stage_slug[t])

\* C26 as stated: a push to refs/heads/main of a repository that is no
\* template and is named after a uuid of no enrollment creates no
\* PipelineRun, changes nothing stored, and is answered with 200.
C26_UnknownRepositoryAnswered200 ==
    [][\A t \in Tasks : \A e \in StrayGiteaEvents :
          (/\ HandleGiteaWebhook(t, e)
           /\ e.reference = "refs/heads/main" /\ ~e.template
           /\ ParsesAsUuid(e.name) /\ e.name # EnrollmentRepo)
          => /\ ~job'[t].created
             /\ UNCHANGED storeVars
             /\ StatusCode(result'[t]) = 200]_vars

\* C27: a job is submitted for the stage that is the enrollment's current
\* one at that moment, and the rows the job's callback marks completed
\* are rows of that stage only, wherever the enrollment is by then.
C27_CallbackCompletesSubmittedStage ==
    [][\A t \in Tasks :
          /\ ProcessTrigger(t)
             => job'[t].STAGE = StageText(user_courses.current_stage_id)
          /\ (via[t] = "watch" /\ pc[t] = "transaction" /\ pc'[t] = "idle")
             => \A r \in user_stages' :
                   (r.status = "completed" /\ r \notin user_stages)
                   => r.stage_id = StageOfText(job[t].STAGE)]_vars

\* C27 witness: a job's callback is running for a stage that is stored
\* as completed, the enrollment being at a later stage.
C27_CallbackAfterAdvance ==
    \E t \in Tasks :
       /\ via[t] = "watch" /\ pc[t] \in {"get_user_stage", "transaction"}
       /\ job[t].created
       /\ user_courses.current_stage_id \notin {NULL, stage_slug[t]}
       /\ \E r \in RowsOf(user_stages, stage_slug[t]) : r.status = "completed"

\* C28: a push for an activated enrollment makes one call of trigger(),
\* which creates one PipelineRun or fails; a watch task exists after the
\* step exactly when the PipelineRun was created, it is the pushing
\* task's only, and process() has returned with no status of the job
\* read; no other task's job or watch changes.
C28_OneJobOneDetachedWatch ==
    [][\A t \in Tasks :
          (PushBegins(t) /\ user_courses.activated)
          => /\ ProcessTrigger(t) \/ ProcessTriggerFailed(t)
             /\ pc'[t] = "watch" <=> job'[t].created
             /\ pc'[t] \in {"watch", "idle"}
             /\ watch'[t] = NoWatch
             /\ UNCHANGED storeVars
             /\ \A u \in Tasks \ {t} :
                   job'[u] = job[u] /\ watch'[u] = watch[u] /\ pc'[u] = pc[u]]_vars

\* C28 witness: two pushes for the activated enrollment have each
\* submitted a job for the same stage, and each has its own watch task,
\* which has made no poll.
C28_TwoPushesTwoJobs ==
    \E t \in Tasks : \E u \in Tasks \ {t} :
       /\ user_courses.activated
       /\ pc[t] = "watch" /\ pc[u] = "watch"
       /\ job[t].created /\ job[u].created /\ job[t].STAGE = job[u].STAGE
       /\ watch[t].polls = 0 /\ watch[u].polls = 0

\* Pushes and watch tasks as in WatchSpec, where every submitted job
\* succeeds: a watch task that goes on polling gets the succeeded status
\* at some poll (the platform may still fail a poll before that), and a
\* callback that was called runs to its end (tokio schedules every
\* spawned task).
RecoverySpec ==
    /\ Init
    /\ [][WatchNext]_vars
    /\ \A t \in Tasks :
          /\ WF_vars(WatchSucceeded(t) /\ Other)
          /\ WF_vars(GetUserStage(t) /\ Other)
          /\ WF_vars(CompleteTransaction(t) /\ Other)

\* Task t's watch task has ended without its callback.
StoppedWithoutCallback(t) ==
    pc[t] = "idle" /\ op[t] = "push" /\ result[t] = "WatchStopped"

StageCompleted(stage) ==
    \E r \in RowsOf(user_stages, stage) : r.status = "completed"

\* C29 as stated: the step in which a watch task ends without its callback
\* changes neither a stored row nor the enrollment, so a stage that is
\* in_progress stays so; and when a watch task has so ended and a push has
\* then submitted a job for the same stage, a job that succeeds, that
\* stage gets completed.
C29_StoppedWatchAllowsRecovery ==
    /\ [][\A t \in Tasks :
             (pc[t] = "watch" /\ StoppedWithoutCallback(t)')
             => /\ UNCHANGED storeVars
                /\ watch[t].callbacks = 0
                /\ \A r \in RowsOf(user_stages, stage_slug[t]) :
                      r.status = "in_progress"
                      => r \in user_stages' /\ ~StageCompleted(stage_slug[t])']_vars
    /\ \A t \in Tasks : \A u \in Tasks \ {t} :
          (/\ StoppedWithoutCallback(u)
           /\ pc[t] = "watch" /\ job[t].created
           /\ stage_slug[t] = stage_slug[u])
          ~> StageCompleted(stage_slug[t])

\* The texts of the first entries of a job's test cases.
LogPrefixes == <<"test-1", "test-2", "test-3", "test-4", "test-5">>

TitleStarts == <<"Stage #1: ", "Stage #2: ", "Stage #3: ", "Stage #4: ",
                 "Stage #5: ">>

\* C30: TEST_CASES_JSON of a job for stage S has one entry for each stage
\* of the course whose weight is at most that of S, in ascending order of
\* weight; entry i has its stage's slug, log_prefix "test-i" and title
\* "Stage #i: <slug>"; the last entry is that of S.
C30_TestCasesUpToStage ==
    \A t \in Tasks :
       job[t].created
       => LET cases == job[t].TEST_CASES_JSON
              S == StageOfText(job[t].STAGE)
              upto == {s \in Stages : s.weight <= Weight(S)}
          IN  /\ S \in Slugs
              /\ Len(cases) = Cardinality(upto)
              /\ {cases[i].slug : i \in DOMAIN cases} = {s.slug : s \in upto}
              /\ \A i \in DOMAIN cases : \A j \in DOMAIN cases :
                    i < j => Weight(cases[i].slug) < Weight(cases[j].slug)
              /\ \A i \in DOMAIN cases :
                    /\ cases[i].log_prefix = LogPrefixes[i]
                    /\ cases[i].title = TitleStarts[i] \o cases[i].slug
              /\ cases[Len(cases)].slug = S

\* C30 witness: a job was submitted for the fourth stage of a course, an
\* extension stage.
C30_JobForFourthStage ==
    \E t \in Tasks :
       /\ job[t].created /\ Len(job[t].TEST_CASES_JSON) = 4
       /\ job[t].TEST_CASES_JSON[4].slug \notin BaseSlugs

(* ------------------------------------------------------------------ *)
(* Properties of the whole progression                                 *)
(* ------------------------------------------------------------------ *)

\* C31 as stated: a completion is committed only by the callback of a
\* watch task that polled its job succeeded, or by the handling of a
\* notification that verified; never by a complete_stage request.
C31_CompletedOnlyByPassedJob ==
    [][\A t \in Tasks :
          CommitsCompletion(t)
          => \/ via[t] = "watch" /\ job[t].created /\ watch[t].callbacks = 1
             \/ via[t] = "tekton"]_vars

(* ------------------------------------------------------------------ *)
(* The signature and the three fields it covers                        *)
(* ------------------------------------------------------------------ *)

\* The (repo, course, stage) triples of non-empty fields, one character
\* longer than Fields allows, whose payload HmacSha256 still tells apart.
Triples ==
    LET longer == StringsUpTo(MaxLen + 1) \ {<<>>}
    IN  {x \in longer \X longer \X longer :
            Len(x[1]) + Len(x[2]) + Len(x[3]) <= 3 * MaxLen + 1}

\* The notification for triple x carrying secret.
Notification(x, secret) ==
    [repo |-> x[1], course |-> x[2], stage |-> x[3], secret |-> secret]

\* A notification arrives for some triple, signed under some key or not
\* signed.
HandleSignedNotification ==
    /\ verdict = "none"
    /\ \E x \in Triples :
          \E secret \in {HmacSha256Sign(x[1] \o x[2] \o x[3], k) :
                            k \in AuthSecrets} \cup {<<>>} :
             /\ event' = Notification(x, secret)
             /\ verdict' = TektonVerdict(Notification(x, secret))
    /\ accepted_event' = NoEvent
    /\ UNCHANGED <<course_schema, storeVars, taskVars, histVars, auth_secret>>

\* The secret of an accepted notification arrives again, with another
\* triple.
HandleReusedSecret ==
    /\ verdict = "accepted"
    /\ accepted_event = NoEvent
    /\ \E x \in Triples :
          /\ x # <<event.repo, event.course, event.stage>>
          /\ event' = Notification(x, event.secret)
          /\ verdict' = TektonVerdict(Notification(x, event.secret))
    /\ accepted_event' = event
    /\ UNCHANGED <<course_schema, storeVars, taskVars, histVars, auth_secret>>

ReuseNext ==
    \/ HandleSignedNotification
    \/ HandleReusedSecret

ReuseSpec == SigInit /\ [][ReuseNext]_vars

\* C32 as stated: the secret of a notification that verified does not
\* verify with any other (repo, course, stage) triple under the same
\* auth_secret.
C32_SecretVerifiesOneTriple ==
    (/\ accepted_event # NoEvent
     /\ event.secret = accepted_event.secret
     /\ <<event.repo, event.course, event.stage>>
          # <<accepted_event.repo, accepted_event.course, accepted_event.stage>>)
    => verdict = "Unauthorized"

\* No handler is running and no watch task is left.
Quiescent == \A t \in Tasks : pc[t] = "idle"

\* C33 as stated, in its safety half: whenever an activated enrollment
\* with a stage left to complete is at rest, its current stage has an
\* in_progress row, so that the next push submits a job whose success
\* completes it; the enrollment is never left with a completed stage as
\* the one every future push submits a job for.
C33_CurrentStageCompletable ==
    (Quiescent /\ user_courses.activated /\ ~AllStagesCompleted)
    => \E r \in RowsOf(user_stages, user_courses.current_stage_id) :
          r.status = "in_progress"

\* Task t is inside a complete call that began when every stage was
\* already completed: the enrollment it read is the stored one.
CompletesFinishedCourse(t) ==
    /\ AllStagesCompleted
    /\ op[t] = "complete" /\ pc[t] \in {"get_user_stage", "transaction"}
    /\ user_course[t] = user_courses

\* C34: once every stage of the course is completed, completed_stage_count
\* is the number of the course's stages; a push changes nothing stored
\* (it submits a job for the last stage), and every complete call that
\* begins from then on, from a job's callback or a notification, is
\* refused with StageAlreadyCompleted without changing anything stored.
C34_FinishedCourseUnchanged ==
    [][AllStagesCompleted
       => /\ user_courses.completed_stage_count = Cardinality(Stages)
          /\ AllStagesCompleted'
          /\ \A t \in Tasks :
                /\ PushBegins(t)
                   => /\ UNCHANGED storeVars
                      /\ pc'[t] # "activate"
                      /\ stage_slug'[t] = user_courses.current_stage_id
                /\ (CompletesFinishedCourse(t) /\ pc'[t] # pc[t])
                   => /\ UNCHANGED storeVars
                      /\ pc'[t] = "idle"
                      /\ result'[t] = "StageAlreadyCompleted"]_vars

\* C34 witness: every stage is completed and the callback of a job that
\* a later push submitted has been refused as already completed.
C34_RefusedAfterLastStage ==
    /\ AllStagesCompleted
    /\ user_courses.completed_stage_count = Cardinality(Stages)
    /\ \E t \in Tasks :
          /\ FinishedComplete(t, user_courses.current_stage_id)
          /\ result[t] = "StageAlreadyCompleted"
          /\ FindNextStageBySlug(stage_slug[t]) = NULL

\* C35 as stated: completed_stage_count is the number of the enrollment's
\* rows of user_stages with status completed.
C35_CountIsCompletedRows ==
    user_courses.completed_stage_count
      = Cardinality({r \in user_stages : r.status = "completed"})

\* The stages that have a row of user_stages.
StartedStages == {r.stage_id : r \in user_stages}

\* C36: the stages with a row form a prefix of the course's order of
\* weight: every stage of lower weight than a stage with a row has a
\* completed row, and a row that is in_progress is of the highest-weight
\* stage that has a row.
C36_RowsFormPrefix ==
    /\ StartedStages \subseteq Slugs
    /\ \A stage \in StartedStages : \A lower \in Slugs :
          Weight(lower) < Weight(stage) => StageCompleted(lower)
    /\ \A r \in user_stages :
          r.status = "in_progress"
          => \A stage \in StartedStages : Weight(stage) <= Weight(r.stage_id)

\* C36 witness: every base stage of a course of three base stages is
\* completed and the first stage of its extension is in_progress.
C36_PrefixIntoExtension ==
    /\ Cardinality(StartedStages) >= 4
    /\ \A s \in BaseSlugs : StageCompleted(s)
    /\ \E r \in user_stages :
          r.status = "in_progress" /\ r.stage_id \notin BaseSlugs

(* ------------------------------------------------------------------ *)
(* The weights of create_course and the walk through the stages        *)
(* ------------------------------------------------------------------ *)

\* Most base stages, and most stages of an extension, of the small
\* courses; the number of last stages of a course a walk may begin at.
MaxStages == 3

WalkTail == 5

\* One more stage than the factor of an extension's weight bucket.
ManyStages == ExtensionWeightBase + 1

\* The course of b base stages and of one extension of exts[k] stages for
\* each k, with slugs s0, s1, ... and e0, ..., f0, ...
CourseOf(b, exts) ==
    [stages |-> [i \in 1..b |-> "s" \o Decimal(i - 1)],
     extensions |->
        [k \in DOMAIN exts |->
            [j \in 1..exts[k] |-> <<"e", "f">>[k] \o Decimal(j - 1)]]]

\* The courses create_course is given: small ones, and one with more
\* base stages than the factor.
WalkCourses ==
    {CourseOf(b, <<m, n>>) : b \in 1..MaxStages, m \in 0..MaxStages,
                             n \in 0..MaxStages}
    \cup {CourseOf(ManyStages, <<1>>)}

\* An enrollment with WalkTail stages left to go through, or at the first
\* stage of a shorter course, the stages before it completed.
WalkInit ==
    /\ course_schema \in WalkCourses
    /\ user_courses \in
          {[NewUserCourse EXCEPT
               !.activated = TRUE,
               !.current_stage_id = s.slug,
               !.completed_stage_count =
                   Cardinality({o \in Stages : o.weight < s.weight})] :
              s \in {x \in Stages :
                        LET after == Cardinality({o \in Stages :
                                                    o.weight > x.weight})
                        IN  \/ after = WalkTail - 1
                            \/ /\ after < WalkTail
                               /\ \A o \in Stages : x.weight <= o.weight}}
    /\ user_stages = {}
    /\ pc = [t \in Tasks |-> "idle"]
    /\ op = [t \in Tasks |-> "none"]
    /\ stage_slug = [t \in Tasks |-> ""]
    /\ user_course = [t \in Tasks |-> NewUserCourse]
    /\ user_stage = [t \in Tasks |-> NoUserStage]
    /\ result = [t \in Tasks |-> "none"]
    /\ via = [t \in Tasks |-> "none"]
    /\ job = [t \in Tasks |-> NoJob]
    /\ watch = [t \in Tasks |-> NoWatch]
    /\ call_start = <<NewUserCourse, {}>>
    /\ last_call = NoCall
    /\ prev_call = NoCall
    /\ NoSignature

\* start_next_stage for the current stage, when there is a next one.
StartNextStage ==
    /\ FindNextStageBySlug(user_courses.current_stage_id) # NULL
    /\ user_courses' =
          UpdatedUserCourse(user_courses,
                            FindNextStageBySlug(user_courses.current_stage_id))
    /\ UNCHANGED <<course_schema, user_stages, taskVars, histVars, sigVars>>

WalkSpec == WalkInit /\ [][StartNextStage]_vars

\* C37 as stated: in a course of any numbers of base and extension
\* stages, no two stages have the same weight, every base stage weighs
\* less than every extension stage, and the walk by strictly greater
\* weight has been through every stage when it finds no next one.
C37_WeightsOrderEveryCourse ==
    /\ \A s \in Stages : \A o \in Stages :
          /\ s.slug # o.slug => s.weight # o.weight
          /\ (s.extension = 0 /\ o.extension # 0) => s.weight < o.weight
    /\ FindNextStageBySlug(user_courses.current_stage_id) = NULL
       => user_courses.completed_stage_count + 1 = Cardinality(Stages)

(* ------------------------------------------------------------------ *)
(* Two first pushes at once                                            *)
(* ------------------------------------------------------------------ *)

\* Task t returns from activate().
ActivateReturns(t) == pc[t] = "activate" /\ pc'[t] = "idle"

\* C38: of the activations that pushes begin for the unactivated
\* enrollment, the one that commits first creates the one row, of the
\* lowest-weight stage, and makes it the current stage; every other one
\* finds that stage's row, returns Conflict and changes nothing stored;
\* there is never a second row of that stage, and no task that goes to
\* activate() has a job or a watch task.
C38_ActivationOnce ==
    [][\A t \in Tasks :
          /\ Cardinality(RowsOf(user_stages', FirstStage)) <= 1
          /\ pc'[t] = "activate" => ~job'[t].created /\ watch'[t] = NoWatch
          /\ ActivateReturns(t)
             => /\ ~job'[t].created /\ watch'[t] = NoWatch
                /\ IF RowsOf(user_stages, FirstStage) = {}
                   THEN /\ result'[t] = "Ok"
                        /\ Cardinality(user_stages') = 1
                        /\ \A r \in user_stages' :
                              r.stage_id = FirstStage /\ r.status = "in_progress"
                        /\ user_courses'.activated
                        /\ user_courses'.current_stage_id = FirstStage
                   ELSE /\ result'[t] = "Conflict"
                        /\ UNCHANGED storeVars]_vars

\* C38 witness: two pushes had read the unactivated enrollment; one
\* activation has committed and the other has returned Conflict, with
\* one row stored.
C38_OneWonOneLost ==
    \E t \in Tasks : \E u \in Tasks \ {t} :
       /\ pc[t] = "idle" /\ op[t] = "push" /\ result[t] = "Ok"
       /\ pc[u] = "idle" /\ op[u] = "push" /\ result[u] = "Conflict"
       /\ Cardinality(user_stages) = 1
       /\ user_courses.current_stage_id = FirstStage
       /\ user_courses.completed_stage_count = 0

====
